---- MODULE Spec2Model ----
(***************************************************************************)
(* Model of crawl_stars.py: the resumable, paginated GitHub star crawl.   *)
(* The PostgreSQL tables are sets of rows, the crawl run is a process     *)
(* whose position is pc, and the upstream API answers each attempt with   *)
(* any response of a small alphabet.                                      *)
(*                                                                         *)
(* Spec       runs of main() one after the other on one database          *)
(* SpecStore  the Progress Store functions called in any order            *)
(* SpecSink   one batch handed to the Upsert Sink twice                   *)
(* SpecRate   the rate policy of crawl_once on one quota snapshot         *)
(* SpecPair   two processes of main() with different keys, interleaved     *)
(* SpecRun    one run of main() whose every call returns                   *)
(***************************************************************************)
EXTENDS Integers, Sequences, FiniteSets, TLC

VARIABLES
    \* ---- database (PostgreSQL) ----
    progress,      \* table crawl_progress: set of rows [id, cursor, last_run]
    repos,         \* table repos: set of rows, primary key id
    repo_stars,    \* table repo_stars: set of rows [repo_id, observed_at, stargazers]
    now,           \* the database clock, now()
    \* ---- the run: main() and crawl_once() ----
    pc,            \* position of the process
    run,           \* number of the current run (1..MaxRuns)
    start_cursor,  \* main: start_cursor
    cursor,        \* crawl_once: cursor
    pages,         \* crawl_once: pages
    attempts,      \* tenacity: attempt number of the current graphql_request call
    data,          \* crawl_once: data, the body graphql_request returned
    idx,           \* crawl_once: position of the for loop in edges
    slept,         \* seconds handed to time.sleep after the last fetch
    \* ---- history of the run (observation only, never read by an action guard) ----
    first_status,  \* HTTP status of attempt 1 of the current graphql_request call
    all_5xx,       \* every attempt of the current call so far was answered 5xx
    failure,       \* why the run ended abnormally: "none", "fetch", "rate", "sink", "crash"
    fetched,       \* number of bodies graphql_request returned in this run
    scenario,      \* the bodies returned in this run, while they follow Listing
    sunk,          \* positions in edges of the current page upserted and committed
    ckpt,          \* the last write_progress call of this run: [key, cursor, page]
    done_pages,    \* pages of this run that reached the end of the loop body
    prev,          \* end cursor of the last page the previous run completed, or NoPrev
    variables,     \* crawl_once: variables of the request whose body is not yet stored
    \* ---- Progress Store used on its own ----
    written,       \* key -> cursor handed to the last write_progress(key), or Unwritten
    effective,     \* key -> whether that write_progress found a row to update
    ensured,       \* keys ensure_progress_row was called with
    read_result,   \* the last read_progress since the last change: [key, value]
    last_op,       \* the last Progress Store call: [op, key]
    \* ---- Upsert Sink used on its own ----
    batch,         \* the batch of raw records being applied
    pass,          \* which application of the batch is running (1, 2; 3 = finished)
    repos_once,    \* table repos as it was after the first application
    applied_at,    \* database time when the first application finished
    \* ---- two processes on one database ----
    run_key,       \* main: the key= it passes to ensure_progress_row and read_progress
    parked         \* key and locals of the process that is not taking the step

vars == <<progress, repos, repo_stars, now, pc, run, start_cursor, cursor, pages,
          attempts, data, idx, slept, first_status, all_5xx, failure, fetched, scenario, sunk,
          ckpt, done_pages, prev, variables, written, effective, ensured, read_result, last_op, batch,
          pass,
          repos_once, applied_at, run_key, parked>>

dbVars    == <<progress, repos, repo_stars, now>>
runVars   == <<pc, run, start_cursor, cursor, pages, attempts, data, idx, slept,
               first_status, all_5xx, failure, fetched, scenario, sunk, ckpt, done_pages, prev, variables>>
storeVars == <<written, effective, ensured, read_result, last_op>>
sinkVars  == <<batch, pass, repos_once, applied_at>>
pairVars  == <<run_key, parked>>

-----------------------------------------------------------------------------
(* Bounds of the model *)

MaxTime == 2      \* the database clock runs 0..MaxTime
MaxRuns == 2      \* runs of main() in sequence
MaxPages == 2     \* MAX_PAGES_PER_RUN given to the run
MaxBatch == 2     \* records in a batch handed to the sink on its own

-----------------------------------------------------------------------------
(* Values *)

\* Python None, SQL NULL, JSON null
NULL == "NULL"

\* a dict key that is absent (dict.get falls back to its default)
Absent == "ABSENT"

\* pagination cursors the upstream issues
Cursors == {"A", "B"}

\* key="default" of ensure_progress_row, read_progress, write_progress
DefaultKey == "default"

\* key="stars_crawl" main passes to ensure_progress_row and read_progress
RunKey == "stars_crawl"

Keys == {DefaultKey, RunKey}

-----------------------------------------------------------------------------
(* Progress Store: table crawl_progress *)

RowsOf(P, key) == {r \in P : r.id = key}

HasRow(P, key) == RowsOf(P, key) # {}

\* variant of ensure_progress_row: a plain INSERT, with no primary key to stop it
ensure_progress_rowNoConflict(P, key, t) ==
    P \cup {[id |-> key, cursor |-> NULL, last_run |-> t]}

\* INSERT ... VALUES (key, NULL, now()) ON CONFLICT (id) DO NOTHING; commit
ensure_progress_row(P, key, t) ==
    IF HasRow(P, key) THEN P
    ELSE P \cup {[id |-> key, cursor |-> NULL, last_run |-> t]}

\* SELECT cursor FROM crawl_progress WHERE id=key; r[0] if r else None
read_progress(P, key) ==
    IF HasRow(P, key) THEN (CHOOSE r \in P : r.id = key).cursor ELSE NULL

\* variant of write_progress: the UPDATE has no WHERE clause
write_progressNoWhere(P, cursor_value, key, t) ==
    {[r EXCEPT !.cursor = cursor_value, !.last_run = t] : r \in P}

\* UPDATE crawl_progress SET cursor=..., last_run=now() WHERE id=key; commit
write_progress(P, cursor_value, key, t) ==
    {IF r.id = key THEN [r EXCEPT !.cursor = cursor_value, !.last_run = t] ELSE r
        : r \in P}

-----------------------------------------------------------------------------
(* Upsert Sink: tables repos and repo_stars *)

\* a search edge's node, as REPO_FIELDS asks for it; owner stands for owner.login
\* (NULL: "owner": null), primaryLanguage and defaultBranchRef for their name
\* (NULL: the nested object is null)
MkNode(rid, owner, name, lang, branch, stars) ==
    [id |-> rid, owner |-> owner, name |-> name, url |-> "u/" \o name,
     description |-> NULL, primaryLanguage |-> lang, defaultBranchRef |-> branch,
     updatedAt |-> "2020", stargazerCount |-> stars]

n1  == MkNode("r1", "o1", "a", "py", "main", 5)
\* r1 again, renamed, language gone, one more star
n1b == MkNode("r1", "o1", "a2", NULL, "main", 6)
n2  == MkNode("r2", "o2", "b", NULL, NULL, 0)
n3  == MkNode("r3", "o1", "c", "go", "dev", 7)
\* "owner": null makes repo_node.get("owner", {}).get("login") raise
nBad == MkNode("r4", NULL, "d", NULL, NULL, 1)

Nodes == {n1, n1b, n2, n3, nBad}

\* an edge whose node is null or missing: e.get("node") is falsy
NoNode == [id |-> NULL]

\* line 111: None has no attribute get
UpsertRaises(node) == node.owner = NULL

\* lines 110-119: the parameters of the two statements
RepoRow(node, first_seen, last_seen) ==
    [id |-> node.id, owner |-> node.owner, name |-> node.name,
     full_name |-> node.owner \o "/" \o node.name, url |-> node.url,
     description |-> node.description, language |-> node.primaryLanguage,
     default_branch |-> node.defaultBranchRef, updated_at |-> node.updatedAt,
     first_seen_at |-> first_seen, last_seen_at |-> last_seen]

\* variant of UpsertRepo: the conflicting row is replaced whole
UpsertRepoReplace(R, node, t) ==
    {r \in R : r.id # node.id} \cup {RepoRow(node, t, t)}

\* variant of UpsertRepo: ON CONFLICT (id) DO NOTHING
UpsertRepoKeep(R, node, t) ==
    IF \E r \in R : r.id = node.id THEN R ELSE R \cup {RepoRow(node, t, t)}

\* INSERT INTO repos ... ON CONFLICT (id) DO UPDATE SET ..., last_seen_at = now()
UpsertRepo(R, node, t) ==
    IF \E r \in R : r.id = node.id
    THEN {IF r.id = node.id THEN RepoRow(node, r.first_seen_at, t) ELSE r : r \in R}
    ELSE R \cup {RepoRow(node, t, t)}

\* unique(repo_id, observed_at) of table repo_stars
StarConflict(S, rid, t) == \E s \in S : s.repo_id = rid /\ s.observed_at = t

\* INSERT INTO repo_stars ... VALUES (rid, now(), stars) ON CONFLICT DO NOTHING
InsertStar(S, node, t) ==
    IF StarConflict(S, node.id, t) THEN S
    ELSE S \cup {[repo_id |-> node.id, observed_at |-> t,
                  stargazers |-> node.stargazerCount]}

\* upsert_repo_and_star: both statements in one transaction, then commit
upsert_repo_and_star(R, S, node, t) ==
    [repos |-> UpsertRepo(R, node, t), repo_stars |-> InsertStar(S, node, t)]

-----------------------------------------------------------------------------
(* JSON bodies: a dict is a record, a key it lacks is outside its DOMAIN *)

Has(d, k) == k \in DOMAIN d

\* {} : the default of data.get("data", {}), .get("rateLimit", {}), ...
EmptyDict == [k \in {} |-> NULL]

\* JSON null where an object is asked for: the key is there, so .get returns
\* None and not its default
JsonNull == [null |-> TRUE]

\* data.get("data", {})
GetData(body) == IF Has(body, "data") THEN body.data ELSE EmptyDict

\* data.get("data", {}).get("rateLimit", {})
GetRateLimit(body) ==
    IF Has(GetData(body), "rateLimit") THEN GetData(body).rateLimit ELSE EmptyDict

\* data.get("data", {}).get("search", {})
GetSearch(body) ==
    IF Has(GetData(body), "search") THEN GetData(body).search ELSE EmptyDict

\* search.get("edges", [])
GetEdges(body) ==
    IF Has(GetSearch(body), "edges") THEN GetSearch(body).edges ELSE <<>>

\* search.get("pageInfo", {})
GetPageInfo(body) ==
    IF Has(GetSearch(body), "pageInfo") THEN GetSearch(body).pageInfo ELSE EmptyDict

\* page_info.get("endCursor")
GetEndCursor(body) ==
    IF Has(GetPageInfo(body), "endCursor") THEN GetPageInfo(body).endCursor ELSE NULL

\* page_info.get("hasNextPage"), as "if not has_next" reads it: None is falsy
GetHasNext(body) ==
    Has(GetPageInfo(body), "hasNextPage") /\ GetPageInfo(body).hasNextPage

-----------------------------------------------------------------------------
(* Rate policy: crawl_once lines 153-166 *)

\* remaining < 50
LOW_WATER == 50

\* + 5
BUFFER_SECS == 5

\* line 154: rl is None, and None has no attribute get
RateRaises(rl) == rl = JsonNull

\* variant of RemainingLow: the low-water mark itself counts as low
RemainingLowInclusive(rl) == Has(rl, "remaining") /\ rl.remaining <= LOW_WATER

\* remaining is not None and remaining < 50
RemainingLow(rl) == Has(rl, "remaining") /\ rl.remaining < LOW_WATER

\* seconds handed to time.sleep for the quota snapshot rl at time clock, 0 when
\* time.sleep is not called; resetAt is the instant its ISO-8601 text denotes
sleep_secs(rl, clock) ==
    IF RemainingLow(rl) /\ Has(rl, "resetAt")
    THEN LET secs == (rl.resetAt - clock) + BUFFER_SECS IN
         IF secs > 0 THEN secs ELSE 0
    ELSE 0

-----------------------------------------------------------------------------
(* The database clock *)

\* time passes; within a run every statement is taken to see the same instant
Tick ==
    /\ pc \notin {"start", "read", "loop", "fetch", "rate", "sink"}
    /\ now < MaxTime
    /\ now' = now + 1
    /\ UNCHANGED <<progress, repos, repo_stars>>
    /\ UNCHANGED <<runVars, storeVars, sinkVars, pairVars>>

-----------------------------------------------------------------------------
(* The upstream API: what requests.post can come back with *)

\* a 200 body: {"data": {"rateLimit": rl, "search": {"edges": ..., "pageInfo": ...}}}
Body(rl, edges, end_cursor, has_next) ==
    [data |-> [rateLimit |-> rl,
               search |-> [edges |-> edges,
                           pageInfo |-> [endCursor |-> end_cursor,
                                         hasNextPage |-> has_next]]]]

RateHigh == [remaining |-> 1000, resetAt |-> 20]
RateLow  == [remaining |-> 10, resetAt |-> 20]

\* first page of the listing: two repositories, more to come
B1 == Body(RateHigh, <<n1, n2>>, "A", TRUE)
\* last page of the listing: one repository, quota nearly used up
B2 == Body(RateLow, <<n3>>, "B", FALSE)
\* r1 changed, an edge without node, then a record the sink cannot take; no
\* quota snapshot
BBad == [data |-> [search |-> [edges |-> <<n1b, NoNode, nBad>>,
                               pageInfo |-> [endCursor |-> "B", hasNextPage |-> TRUE]]]]
\* no edges although the page info announces more
BEmptyNext == Body(RateHigh, <<>>, "A", TRUE)
\* the page after the last one: no edges, endCursor null
BEmptyEnd == Body(RateHigh, <<>>, NULL, FALSE)
\* {"errors": [...]}
BErrors == [errors |-> TRUE]
\* a JSON body with neither "data" nor "errors": {}
BNoData == EmptyDict
\* {"data": {}}: no "search" object
BNoSearch == [data |-> EmptyDict]
\* a "search" object with edges but without "pageInfo"
BNoPageInfo == [data |-> [search |-> [edges |-> <<n2>>]]]
\* the body of a 403: {"message": ...}
BForbidden == [message |-> "forbidden"]

PageBodies == {B1, B2, BBad, BEmptyNext, BEmptyEnd}

\* the listing the upstream serves when all is well: two pages, then nothing
Listing == <<B1, B2>>

\* the bodies returned so far, as long as they are the pages of Listing in order:
\* seq when n bodies were returned before body
FollowListing(seq, n, body) ==
    IF Len(seq) = n /\ n < Len(Listing) /\ body = Listing[n + 1]
    THEN Append(seq, body) ELSE seq

\* status 0: requests.post raised (timeout, connection error)
Responses ==
    {[status |-> st, body |-> EmptyDict] : st \in {0, 500, 401}}
      \cup {[status |-> 403, body |-> BForbidden]}
      \cup {[status |-> 200, body |-> b] :
                b \in PageBodies \cup {BErrors, BNoData, BNoSearch, BNoPageInfo}}

-----------------------------------------------------------------------------
(* Retrying Request Client: graphql_request under @retry *)

\* stop_after_attempt(5)
MAX_ATTEMPTS == 5

\* lines 87-98: the attempt raises
AttemptRaises(resp) ==
    \/ resp.status = 0
    \/ resp.status >= 500
    \/ resp.status = 401
    \/ Has(resp.body, "errors")

\* variant of StopRetrying: gives up one attempt later
StopRetryingLate(n) == n > MAX_ATTEMPTS

\* stop=stop_after_attempt(5): no retry after attempt n
StopRetrying(n) == n >= MAX_ATTEMPTS

-----------------------------------------------------------------------------
(* Parts of the state a specification does not use *)

\* no write_progress call yet
Unwritten == "UNWRITTEN"

\* no read_progress call since the table last changed
NoRead == [key |-> Absent, value |-> NULL]

\* no body returned yet
NoData == [kind |-> "none"]

NoCkpt == [key |-> Absent, cursor |-> NULL, page |-> NoData]

\* the previous run completed no page, or there was none
NoPrev == "NOPREV"

\* line 150: variables = {"queryString": query_string, "after": cursor}
Variables(cur) == [after |-> cur]

\* no request has been sent for the page being counted
NoVariables == [after |-> Absent]

\* there is no second process
NoPeer == [key |-> Absent]

DbEmpty ==
    /\ progress = {}
    /\ repos = {}
    /\ repo_stars = {}
    /\ now = 0

RunIdle ==
    /\ pc = "idle"
    /\ run = 0
    /\ start_cursor = NULL
    /\ cursor = NULL
    /\ pages = 0
    /\ attempts = 0
    /\ data = NoData
    /\ idx = 1
    /\ slept = 0
    /\ first_status = 0
    /\ all_5xx = TRUE
    /\ failure = "none"
    /\ fetched = 0 /\ scenario = <<>>
    /\ sunk = {}
    /\ ckpt = NoCkpt
    /\ done_pages = 0
    /\ prev = NoPrev
    /\ variables = NoVariables
    /\ run_key = Absent
    /\ parked = NoPeer

StoreIdle ==
    /\ written = [k \in Keys |-> Unwritten]
    /\ effective = [k \in Keys |-> FALSE]
    /\ ensured = {}
    /\ read_result = NoRead
    /\ last_op = [op |-> "none", key |-> Absent]

SinkIdle ==
    /\ batch = <<>>
    /\ pass = 0
    /\ repos_once = {}
    /\ applied_at = 0

-----------------------------------------------------------------------------
(* The Progress Store on its own: any caller, any key, any order *)

StoreEnsure(key) ==
    /\ progress' = ensure_progress_row(progress, key, now)
    /\ ensured' = ensured \cup {key}
    /\ read_result' = NoRead
    /\ last_op' = [op |-> "ensure", key |-> key]
    /\ UNCHANGED <<repos, repo_stars, now, written, effective>>
    /\ UNCHANGED <<runVars, sinkVars, pairVars>>

StoreWrite(key, cursor_value) ==
    /\ progress' = write_progress(progress, cursor_value, key, now)
    /\ written' = [written EXCEPT ![key] = cursor_value]
    /\ effective' = [effective EXCEPT ![key] = HasRow(progress, key)]
    /\ read_result' = NoRead
    /\ last_op' = [op |-> "write", key |-> key]
    /\ UNCHANGED <<repos, repo_stars, now, ensured>>
    /\ UNCHANGED <<runVars, sinkVars, pairVars>>

StoreRead(key) ==
    /\ read_result' = [key |-> key, value |-> read_progress(progress, key)]
    /\ last_op' = [op |-> "read", key |-> key]
    /\ UNCHANGED <<dbVars, written, effective, ensured>>
    /\ UNCHANGED <<runVars, sinkVars, pairVars>>

StoreInit == DbEmpty /\ RunIdle /\ StoreIdle /\ SinkIdle

StoreNext ==
    \/ \E key \in Keys : StoreEnsure(key)
    \/ \E key \in Keys, c \in Cursors \cup {NULL} : StoreWrite(key, c)
    \/ \E key \in Keys : StoreRead(key)
    \/ Tick

SpecStore == StoreInit /\ [][StoreNext]_vars

\* what the table holds for key: the cursor of the last write_progress that found
\* a row, else NULL
Expect(key) ==
    IF written[key] # Unwritten /\ effective[key] THEN written[key] ELSE NULL

\* C9 as stated: after write(K, C), read(K) returns C whatever the table held,
\* a missing row included
C9_ReadReturnsWrittenAlways ==
    (read_result # NoRead /\ written[read_result.key] # Unwritten)
        => read_result.value = written[read_result.key]

\* C9 amended: read(K) returns the cursor of the last write(K, C) that found a
\* row for K, whatever was written to other keys; a write(K, C) that finds no row
\* stores nothing and read(K) returns null
C9_ReadReturnsWritten ==
    read_result # NoRead => read_result.value = Expect(read_result.key)

\* a cursor was written to one key and another key, written before, is read back
C9_Witness ==
    /\ read_result # NoRead
    /\ read_result.value \in Cursors
    /\ \E other \in Keys \ {read_result.key} :
          /\ written[other] \in Cursors
          /\ effective[other]
          /\ written[other] # read_result.value

\* C10: after any number of ensure(K) calls there is exactly one row for K, no key
\* ever has two rows, and a cursor written for K is still there after ensure(K)
C10_EnsureOneRow ==
    /\ \A key \in Keys : Cardinality(RowsOf(progress, key)) <= 1
    /\ \A key \in ensured :
          /\ Cardinality(RowsOf(progress, key)) = 1
          /\ read_progress(progress, key) = Expect(key)

\* ensure(K), write(K, cursor), then ensure(K) again at a later time
C10_Witness ==
    /\ last_op = [op |-> "ensure", key |-> RunKey]
    /\ written[RunKey] \in Cursors
    /\ effective[RunKey]
    /\ \E r \in progress : r.id = RunKey /\ r.cursor \in Cursors /\ r.last_run < now

-----------------------------------------------------------------------------
(* The Upsert Sink on its own: one batch applied twice *)

\* batches of raw records: edges' nodes, NoNode for an edge without node
Batches ==
    UNION {[1..n -> Nodes \cup {NoNode}] : n \in 1..MaxBatch}

\* crawl_once lines 169-172 for one edge of the batch
SinkApply ==
    /\ pass \in {1, 2}
    /\ idx <= Len(batch)
    /\ LET node == batch[idx] IN
         IF node = NoNode
         THEN /\ idx' = idx + 1
              /\ UNCHANGED <<repos, repo_stars, pass>>
         ELSE IF UpsertRaises(node)
         THEN /\ pass' = 4
              /\ UNCHANGED <<repos, repo_stars, idx>>
         ELSE LET db == upsert_repo_and_star(repos, repo_stars, node, now) IN
              /\ repos' = db.repos
              /\ repo_stars' = db.repo_stars
              /\ idx' = idx + 1
              /\ UNCHANGED pass
    /\ UNCHANGED <<progress, now, batch, repos_once, applied_at>>
    /\ UNCHANGED <<pc, run, start_cursor, cursor, pages, attempts, data, slept,
                   first_status, all_5xx, failure, fetched, scenario, sunk, ckpt, done_pages, prev, variables>>
    /\ UNCHANGED <<storeVars, pairVars>>

\* the application returns; the same batch is handed to the sink once more
SinkReturn ==
    /\ pass \in {1, 2}
    /\ idx > Len(batch)
    /\ pass' = IF pass = 1 THEN 2 ELSE 3
    /\ idx' = 1
    /\ repos_once' = IF pass = 1 THEN repos ELSE repos_once
    /\ applied_at' = IF pass = 1 THEN now ELSE applied_at
    /\ UNCHANGED <<dbVars, batch>>
    /\ UNCHANGED <<pc, run, start_cursor, cursor, pages, attempts, data, slept,
                   first_status, all_5xx, failure, fetched, scenario, sunk, ckpt, done_pages, prev, variables>>
    /\ UNCHANGED <<storeVars, pairVars>>

SinkInit ==
    /\ DbEmpty /\ StoreIdle
    /\ RunIdle
    /\ batch \in Batches
    /\ pass = 1
    /\ repos_once = {}
    /\ applied_at = 0

SinkNext == SinkApply \/ SinkReturn \/ Tick

SpecSink == SinkInit /\ [][SinkNext]_vars

\* no two rows of repo_stars with the same (repo_id, observed_at)
NoDuplicateStars ==
    \A s1, s2 \in repo_stars :
        (s1.repo_id = s2.repo_id /\ s1.observed_at = s2.observed_at) => s1 = s2

\* a repos row without its last_seen_at
SansLastSeen(r) == [f \in DOMAIN r \ {"last_seen_at"} |-> r[f]]

\* C8 as stated: the second application leaves table repos as the first left it,
\* and repo_stars has no two rows with the same (repo_id, observed_at)
C8_SecondApplySameRepos ==
    /\ pass = 3 => repos = repos_once
    /\ NoDuplicateStars

\* C8 amended: the second application leaves every column of every repos row as
\* the first left it except last_seen_at, which it refreshes to the time of the
\* second application; repo_stars has no two rows with the same
\* (repo_id, observed_at)
C8_SecondApplySameButLastSeen ==
    /\ pass = 3 =>
          /\ {SansLastSeen(r) : r \in repos} = {SansLastSeen(r) : r \in repos_once}
          /\ \A r \in repos : r.last_seen_at >= applied_at
    /\ NoDuplicateStars

\* a batch of two records was applied twice, the second time later
C8_Witness ==
    /\ pass = 3
    /\ Cardinality(repos) = 2
    /\ \E r \in repos : r.first_seen_at < r.last_seen_at
    /\ Cardinality(repo_stars) > 2

\* C11: a batch whose application fails at some record leaves none of its repos
\* or repo_stars rows behind, and a batch applied without failure leaves a row
\* in both tables for every record it carries
C11_BatchAllOrNothing ==
    /\ pass = 4 => (repos = {} /\ repo_stars = {})
    /\ pass \in {2, 3} =>
          \A i \in 1..Len(batch) :
              batch[i] = NoNode \/
                  /\ \E r \in repos : r.id = batch[i].id
                  /\ \E o \in repo_stars : o.repo_id = batch[i].id

\* the step upserts the record at idx of the batch
Upserting ==
    /\ pass \in {1, 2}
    /\ idx <= Len(batch)
    /\ idx' = idx + 1
    /\ batch[idx] # NoNode

\* C17: a repos row is never removed and its first_seen_at never changes; an
\* upsert of an id without row sets first_seen_at to the time of that upsert;
\* every upsert sets last_seen_at to its time and every other column to the
\* value its record carries, and touches no other row; nothing else changes the
\* table; so first_seen_at <= last_seen_at in every row
C17_SeenTimes ==
    /\ [](\A r \in repos : r.first_seen_at <= r.last_seen_at)
    /\ [][/\ \A r \in repos :
                 \E q \in repos' : q.id = r.id /\ q.first_seen_at = r.first_seen_at
          /\ Upserting =>
                 /\ \E q \in repos' :
                       /\ [q EXCEPT !.first_seen_at = 0] = RepoRow(batch[idx], 0, now)
                       /\ (\A r \in repos : r.id # q.id) => q.first_seen_at = now
                 /\ \A q \in repos' : q.id # batch[idx].id => q \in repos
                 /\ \A q1, q2 \in repos' : q1.id = q2.id => q1 = q2
          /\ ~Upserting => repos' = repos
         ]_vars

\* r1 was upserted at time 0 and, renamed, again at time 2
C17_Witness ==
    /\ pass = 3
    /\ batch = <<n1, n1b>>
    /\ now = 2
    /\ RepoRow(n1b, 0, 2) \in repos

-----------------------------------------------------------------------------
(* The rate policy on its own: one quota snapshot, one evaluation *)

Remainings == {0, 10, 49, 50, 51, 1000}

\* reset_at - now, in seconds
ResetOffsets == {0 - 10, 0 - 6, 0 - 5, 0 - 4, 0, 20}

\* quota snapshots at time clock, with and without their fields
RateLimitsAt(clock) ==
    {[remaining |-> r, resetAt |-> clock + d] : r \in Remainings, d \in ResetOffsets}
      \cup {[remaining |-> r] : r \in Remainings}
      \cup {[resetAt |-> clock + d] : d \in ResetOffsets}
      \cup {EmptyDict}

\* crawl_once lines 153-166 on the body in data
RateEvaluate ==
    /\ pc = "rate"
    /\ IF RateRaises(GetRateLimit(data))
       THEN /\ pc' = "ABORTED"
            /\ failure' = "rate"
            /\ UNCHANGED slept
       ELSE /\ pc' = "sink"
            /\ slept' = sleep_secs(GetRateLimit(data), now)
            /\ UNCHANGED failure
    \* the call has returned and its response has been looked at
    /\ attempts' = 0
    /\ first_status' = 0
    /\ all_5xx' = TRUE
    /\ UNCHANGED <<dbVars, run, start_cursor, cursor, pages, data, idx,
                   fetched, scenario, sunk, ckpt, done_pages, prev, variables>>
    /\ UNCHANGED <<storeVars, sinkVars, pairVars>>

RateInit ==
    /\ progress = {} /\ repos = {} /\ repo_stars = {}
    /\ now \in 0..MaxTime
    /\ StoreIdle /\ SinkIdle
    /\ pc = "rate"
    /\ data \in {[data |-> [rateLimit |-> rl]] : rl \in RateLimitsAt(now)}
              \cup {[data |-> [rateLimit |-> JsonNull]], [data |-> EmptyDict], EmptyDict}
    /\ run = 0 /\ start_cursor = NULL /\ cursor = NULL /\ pages = 1
    /\ attempts = 1 /\ idx = 1 /\ slept = 0 /\ first_status = 200 /\ all_5xx = FALSE
    /\ failure = "none" /\ fetched = 0 /\ scenario = <<>> /\ sunk = {} /\ ckpt = NoCkpt
    /\ done_pages = 0 /\ prev = NoPrev /\ variables = Variables(cursor)
    /\ run_key = RunKey /\ parked = NoPeer

RateNext == RateEvaluate

SpecRate == RateInit /\ [][RateNext]_vars

\* max(0, x)
Max0(x) == IF x > 0 THEN x ELSE 0

BothFields(rl) == Has(rl, "remaining") /\ Has(rl, "resetAt")

\* C7 as stated: with both fields present the wait is 0 when remaining > 50 and
\* max(0, reset_at - now) + 5 otherwise
C7_WaitAsStated ==
    (pc = "sink" /\ BothFields(GetRateLimit(data))) =>
        LET rl == GetRateLimit(data) IN
        slept = IF rl.remaining > LOW_WATER THEN 0
                ELSE Max0(rl.resetAt - now) + BUFFER_SECS

\* C7 amended: with both fields present the wait is 0 when remaining >= 50 and
\* max(0, reset_at - now + 5) when remaining < 50
C7_WaitOfTheCode ==
    (pc = "sink" /\ BothFields(GetRateLimit(data))) =>
        LET rl == GetRateLimit(data) IN
        slept = IF rl.remaining >= LOW_WATER THEN 0
                ELSE Max0(rl.resetAt - now + BUFFER_SECS)

\* remaining=10, reset_at=now+20: the policy waited 25 s
C7_Witness ==
    /\ pc = "sink"
    /\ GetRateLimit(data) = [remaining |-> 10, resetAt |-> now + 20]
    /\ slept = 25

\* C18: whenever the quota snapshot is missing or lacks remaining or resetAt,
\* the policy raises nothing, waits 0 s and the run goes on to sink the page
C18_FailsOpen ==
    (pc # "rate" /\ ~BothFields(GetRateLimit(data))) =>
        /\ pc = "sink"
        /\ failure = "none"
        /\ slept = 0

-----------------------------------------------------------------------------
(* The run: main() and crawl_once() *)

\* the key crawl_once hands to write_progress: none, so key="default"
CrawlWriteKey == DefaultKey

Running == {"start", "read", "loop", "fetch", "rate", "sink"}

Stopped == {"DONE", "ABORTED", "CRASHED"}

\* main line 193: ensure_progress_row(conn, key="stars_crawl")
MainEnsure ==
    /\ pc = "start"
    /\ progress' = ensure_progress_row(progress, run_key, now)
    /\ pc' = "read"
    /\ UNCHANGED <<repos, repo_stars, now>>
    /\ UNCHANGED <<run, start_cursor, cursor, pages, attempts, data, idx, slept,
                   first_status, all_5xx, failure, fetched, scenario, sunk, ckpt, done_pages, prev, variables>>
    /\ UNCHANGED <<storeVars, sinkVars, pairVars>>

\* main line 194 and crawl_once lines 143-144
MainRead ==
    /\ pc = "read"
    /\ start_cursor' = read_progress(progress, run_key)
    /\ cursor' = start_cursor'
    /\ pages' = 0
    /\ pc' = "loop"
    /\ UNCHANGED <<dbVars, run, attempts, data, idx, slept, first_status, all_5xx,
                   failure, fetched, scenario, sunk, ckpt, done_pages, prev, variables>>
    /\ UNCHANGED <<storeVars, sinkVars, pairVars>>

\* variant of LoopHead: the cap lets one more page through
LoopHeadLateCap ==
    /\ pc = "loop"
    /\ pages' = pages + 1
    /\ pc' = IF pages' > MaxPages + 1 THEN "DONE" ELSE "fetch"
    /\ attempts' = 0
    /\ first_status' = 0
    /\ all_5xx' = TRUE
    /\ UNCHANGED <<dbVars, run, start_cursor, cursor, data, idx, slept, failure,
                   fetched, scenario, sunk, ckpt, done_pages, prev, variables>>
    /\ UNCHANGED <<storeVars, sinkVars, pairVars>>

\* crawl_once lines 146-150: count the page, stop at the cap
LoopHead ==
    /\ pc = "loop"
    /\ pages' = pages + 1
    /\ pc' = IF pages' > MaxPages THEN "DONE" ELSE "fetch"
    /\ attempts' = 0
    /\ first_status' = 0
    /\ all_5xx' = TRUE
    /\ UNCHANGED <<dbVars, run, start_cursor, cursor, data, idx, slept, failure,
                   fetched, scenario, sunk, ckpt, done_pages, prev, variables>>
    /\ UNCHANGED <<storeVars, sinkVars, pairVars>>

\* one attempt of graphql_request(QUERY_TEMPLATE, {"after": cursor}) under @retry
Attempt(resp) ==
    /\ pc = "fetch"
    /\ attempts' = attempts + 1
    /\ variables' = Variables(cursor)
    /\ first_status' = IF attempts = 0 THEN resp.status ELSE first_status
    /\ all_5xx' = (all_5xx /\ resp.status >= 500)
    /\ IF AttemptRaises(resp)
       THEN /\ pc' = IF StopRetrying(attempts') THEN "ABORTED" ELSE "fetch"
            /\ failure' = IF StopRetrying(attempts') THEN "fetch" ELSE failure
            /\ UNCHANGED <<data, fetched, scenario, idx, sunk>>
       ELSE /\ data' = resp.body
            /\ fetched' = fetched + 1
            /\ scenario' = FollowListing(scenario, fetched, resp.body)
            /\ idx' = 1
            /\ sunk' = {}
            /\ pc' = "rate"
            /\ UNCHANGED failure
    /\ UNCHANGED <<dbVars, run, start_cursor, cursor, pages, slept, ckpt,
                   done_pages, prev>>
    /\ UNCHANGED <<storeVars, sinkVars, pairVars>>

\* variant of RunSink: a record that raises is skipped
RunSinkSkipFailed ==
    /\ pc = "sink"
    /\ idx <= Len(GetEdges(data))
    /\ LET node == GetEdges(data)[idx] IN
         IF node = NoNode \/ UpsertRaises(node)
         THEN UNCHANGED <<repos, repo_stars, sunk>>
         ELSE LET db == upsert_repo_and_star(repos, repo_stars, node, now) IN
              /\ repos' = db.repos
              /\ repo_stars' = db.repo_stars
              /\ sunk' = sunk \cup {idx}
    /\ idx' = idx + 1
    /\ UNCHANGED <<progress, now, pc, failure>>
    /\ UNCHANGED <<run, start_cursor, cursor, pages, attempts, data, slept,
                   first_status, all_5xx, fetched, scenario, ckpt, done_pages, prev, variables>>
    /\ UNCHANGED <<storeVars, sinkVars, pairVars>>

\* crawl_once lines 169-172: one edge of the page
RunSink ==
    /\ pc = "sink"
    /\ idx <= Len(GetEdges(data))
    /\ LET node == GetEdges(data)[idx] IN
         IF node = NoNode
         THEN /\ idx' = idx + 1
              /\ UNCHANGED <<repos, repo_stars, sunk, pc, failure>>
         ELSE IF UpsertRaises(node)
         THEN /\ pc' = "ABORTED"
              /\ failure' = "sink"
              /\ UNCHANGED <<repos, repo_stars, sunk, idx>>
         ELSE LET db == upsert_repo_and_star(repos, repo_stars, node, now) IN
              /\ repos' = db.repos
              /\ repo_stars' = db.repo_stars
              /\ sunk' = sunk \cup {idx}
              /\ idx' = idx + 1
              /\ UNCHANGED <<pc, failure>>
    /\ UNCHANGED <<progress, now>>
    /\ UNCHANGED <<run, start_cursor, cursor, pages, attempts, data, slept,
                   first_status, all_5xx, fetched, scenario, ckpt, done_pages, prev, variables>>
    /\ UNCHANGED <<storeVars, sinkVars, pairVars>>

\* variant of Checkpoint: the end cursor is stored but the local cursor is not
\* advanced to it
CheckpointNoAdvance ==
    /\ pc = "sink"
    /\ idx > Len(GetEdges(data))
    /\ cursor' = cursor
    /\ progress' = write_progress(progress, GetEndCursor(data), CrawlWriteKey, now)
    /\ ckpt' = [key |-> CrawlWriteKey, cursor |-> GetEndCursor(data), page |-> data]
    /\ done_pages' = done_pages + 1
    /\ variables' = NoVariables
    /\ pc' = IF ~GetHasNext(data) THEN "DONE" ELSE "loop"
    /\ UNCHANGED <<repos, repo_stars, now>>
    /\ UNCHANGED <<run, start_cursor, pages, attempts, data, idx, slept,
                   first_status, all_5xx, failure, fetched, scenario, sunk, prev>>
    /\ UNCHANGED <<storeVars, sinkVars, pairVars>>

\* crawl_once lines 173-180: store progress, then stop or go on
Checkpoint ==
    /\ pc = "sink"
    /\ idx > Len(GetEdges(data))
    /\ cursor' = GetEndCursor(data)
    /\ progress' = write_progress(progress, cursor', CrawlWriteKey, now)
    /\ ckpt' = [key |-> CrawlWriteKey, cursor |-> cursor', page |-> data]
    /\ done_pages' = done_pages + 1
    /\ variables' = NoVariables
    /\ pc' = IF ~GetHasNext(data) THEN "DONE" ELSE "loop"
    /\ UNCHANGED <<repos, repo_stars, now>>
    /\ UNCHANGED <<run, start_cursor, pages, attempts, data, idx, slept,
                   first_status, all_5xx, failure, fetched, scenario, sunk, prev>>
    /\ UNCHANGED <<storeVars, sinkVars, pairVars>>

\* the process dies where it stands
Crash ==
    /\ pc \in Running
    /\ pc' = "CRASHED"
    /\ failure' = "crash"
    /\ start_cursor' = NULL
    /\ cursor' = NULL
    /\ pages' = 0
    /\ attempts' = 0
    /\ data' = NoData
    /\ idx' = 1
    /\ slept' = 0
    /\ first_status' = 0
    /\ all_5xx' = TRUE
    /\ variables' = NoVariables
    /\ UNCHANGED <<dbVars, run, fetched, scenario, sunk, ckpt, done_pages, prev>>
    /\ UNCHANGED <<storeVars, sinkVars, pairVars>>

\* main() is started again on the same database
NextRun ==
    /\ pc \in Stopped
    /\ run < MaxRuns
    /\ run' = run + 1
    /\ variables' = NoVariables
    /\ prev' = IF done_pages >= 1 THEN ckpt.cursor ELSE NoPrev
    /\ pc' = "start"
    /\ start_cursor' = NULL
    /\ cursor' = NULL
    /\ pages' = 0
    /\ attempts' = 0
    /\ data' = NoData
    /\ idx' = 1
    /\ slept' = 0
    /\ first_status' = 0
    /\ all_5xx' = TRUE
    /\ failure' = "none"
    /\ fetched' = 0
    /\ scenario' = <<>>
    /\ sunk' = {}
    /\ ckpt' = NoCkpt
    /\ done_pages' = 0
    /\ UNCHANGED dbVars
    /\ UNCHANGED <<storeVars, sinkVars, pairVars>>

\* a fresh database, or one where ensure_progress_row() was once called with its
\* default key
Init ==
    /\ progress \in {{}, {[id |-> DefaultKey, cursor |-> NULL, last_run |-> 0]}}
    /\ repos = {}
    /\ repo_stars = {}
    /\ now = 0
    /\ pc = "start"
    /\ run = 1
    /\ start_cursor = NULL /\ cursor = NULL /\ pages = 0 /\ attempts = 0
    /\ data = NoData /\ idx = 1 /\ slept = 0 /\ first_status = 0 /\ all_5xx = TRUE
    /\ failure = "none" /\ fetched = 0 /\ scenario = <<>> /\ sunk = {} /\ ckpt = NoCkpt
    /\ done_pages = 0 /\ prev = NoPrev /\ variables = NoVariables
    /\ run_key = RunKey /\ parked = NoPeer
    /\ StoreIdle /\ SinkIdle

Next ==
    \/ MainEnsure
    \/ MainRead
    \/ LoopHead
    \/ \E resp \in Responses : Attempt(resp)
    \/ RateEvaluate
    \/ RunSink
    \/ Checkpoint
    \/ Crash
    \/ NextRun
    \/ Tick

Spec == Init /\ [][Next]_vars

-----------------------------------------------------------------------------
(* One run of main() that is not killed: every call it makes returns *)

RunNext ==
    \/ MainEnsure
    \/ MainRead
    \/ LoopHead
    \/ \E resp \in Responses : Attempt(resp)
    \/ RateEvaluate
    \/ RunSink
    \/ Checkpoint

\* the process is sequential: while it has a next statement it executes it, each
\* requests.post (timeout=60), time.sleep and database call returning
SpecRun == Init /\ [][RunNext]_vars /\ WF_vars(RunNext)

-----------------------------------------------------------------------------
(* Two processes of main() on one database, each with the key= of its own *)

\* the upstream as a function of "after": the pages of Listing, then the empty
\* page that follows the last one
Serve(after) ==
    IF after = NULL THEN B1
    ELSE IF after = "A" THEN B2
    ELSE BEmptyEnd

\* the key and the locals of the process taking the steps
Locals ==
    [key |-> run_key, pc |-> pc, run |-> run, start_cursor |-> start_cursor,
     cursor |-> cursor, pages |-> pages, attempts |-> attempts, data |-> data,
     idx |-> idx, slept |-> slept, first_status |-> first_status,
     all_5xx |-> all_5xx, failure |-> failure, fetched |-> fetched,
     scenario |-> scenario, sunk |-> sunk, ckpt |-> ckpt,
     done_pages |-> done_pages, prev |-> prev, variables |-> variables]

\* main() entered with k as the key= of lines 193-194
AtStart(k) ==
    [key |-> k, pc |-> "start", run |-> 1, start_cursor |-> NULL, cursor |-> NULL,
     pages |-> 0, attempts |-> 0, data |-> NoData, idx |-> 1, slept |-> 0,
     first_status |-> 0, all_5xx |-> TRUE, failure |-> "none", fetched |-> 0,
     scenario |-> <<>>, sunk |-> {}, ckpt |-> NoCkpt, done_pages |-> 0,
     prev |-> NoPrev, variables |-> NoVariables]

\* the scheduler takes the other process: its steps come next
Switch ==
    /\ parked # NoPeer
    /\ parked' = Locals
    /\ run_key' = parked.key
    /\ pc' = parked.pc
    /\ run' = parked.run
    /\ start_cursor' = parked.start_cursor
    /\ cursor' = parked.cursor
    /\ pages' = parked.pages
    /\ attempts' = parked.attempts
    /\ data' = parked.data
    /\ idx' = parked.idx
    /\ slept' = parked.slept
    /\ first_status' = parked.first_status
    /\ all_5xx' = parked.all_5xx
    /\ failure' = parked.failure
    /\ fetched' = parked.fetched
    /\ scenario' = parked.scenario
    /\ sunk' = parked.sunk
    /\ ckpt' = parked.ckpt
    /\ done_pages' = parked.done_pages
    /\ prev' = parked.prev
    /\ variables' = parked.variables
    /\ UNCHANGED <<dbVars, storeVars, sinkVars>>

\* graphql_request answered at once by the upstream
PairAttempt == Attempt([status |-> 200, body |-> Serve(cursor)])

\* one process alone, or two with different keys, on an empty database
PairInit ==
    /\ DbEmpty /\ StoreIdle /\ SinkIdle
    /\ run_key \in Keys
    /\ parked \in {NoPeer} \cup {AtStart(k) : k \in Keys \ {run_key}}
    /\ pc = "start" /\ run = 1
    /\ start_cursor = NULL /\ cursor = NULL /\ pages = 0 /\ attempts = 0
    /\ data = NoData /\ idx = 1 /\ slept = 0 /\ first_status = 0 /\ all_5xx = TRUE
    /\ failure = "none" /\ fetched = 0 /\ scenario = <<>> /\ sunk = {} /\ ckpt = NoCkpt
    /\ done_pages = 0 /\ prev = NoPrev /\ variables = NoVariables

PairNext ==
    \/ MainEnsure
    \/ MainRead
    \/ LoopHead
    \/ PairAttempt
    \/ RateEvaluate
    \/ RunSink
    \/ Checkpoint
    \/ Switch

SpecPair == PairInit /\ [][PairNext]_vars

\* the processes there are
Instances == {Locals} \cup ({parked} \ {NoPeer})

\* the cursor the row of key k holds when the process with key k has run alone
AloneFinal(k) == IF k = CrawlWriteKey THEN GetEndCursor(Listing[Len(Listing)]) ELSE NULL

\* C13: each of two processes with different keys calls write_progress on the row
\* of its own key only, and when both have stopped the row of each key holds the
\* cursor it holds when that process runs alone
C13_Independent ==
    parked # NoPeer =>
        /\ \A i \in Instances : i.ckpt.key \in {Absent, i.key}
        /\ (\A i \in Instances : i.pc \in Stopped) =>
               \A i \in Instances : read_progress(progress, i.key) = AloneFinal(i.key)

-----------------------------------------------------------------------------
(* Properties of the run *)

\* the cursor stored for the key the run reads its start cursor from
Checkpointed == read_progress(progress, RunKey)

\* C1: a run that stops after completing k >= 1 pages leaves the end cursor of
\* page k in the checkpoint of its key, and the next run's first fetch uses it
C1_ResumeAtLastPage ==
    /\ (pc \in Stopped /\ done_pages >= 1) => Checkpointed = ckpt.cursor
    /\ (prev # NoPrev /\ pc = "fetch" /\ pages = 1) => cursor = prev

\* the nodes of the pages of Listing
ListingNodes ==
    UNION {{GetEdges(Listing[p])[i] : i \in 1..Len(GetEdges(Listing[p]))} :
             p \in 1..Len(Listing)}

\* C2: a first run from a null checkpoint that is served the pages of Listing
\* ends DONE with each page fetched once, one repos row per node id, one
\* observation per node, and the last end cursor in the checkpoint of its key
C2_EndToEnd ==
    (pc = "DONE" /\ run = 1 /\ start_cursor = NULL /\ scenario = Listing
        /\ fetched = Len(Listing)) =>
        /\ pages = Len(Listing)
        /\ done_pages = Len(Listing)
        /\ {r.id : r \in repos} = {n.id : n \in ListingNodes}
        /\ Cardinality(repos) = 3
        /\ Cardinality(repo_stars) = 3
        /\ \A n \in ListingNodes :
              \E o \in repo_stars :
                  o.repo_id = n.id /\ o.stargazers = n.stargazerCount
        /\ Checkpointed = GetEndCursor(Listing[Len(Listing)])

\* every edge of page that has a node was upserted and committed, and its rows
\* are in the tables
AllSunk(page) ==
    \A i \in 1..Len(GetEdges(page)) :
        LET node == GetEdges(page)[i] IN
        node = NoNode \/
            /\ i \in sunk
            /\ \E r \in repos : r.id = node.id
            /\ \E o \in repo_stars : o.repo_id = node.id

\* C3: a step that calls write_progress or changes a stored cursor is taken only
\* when every node of the current page has been upserted and committed, and it
\* stores that page's end cursor; so a step that fails the fetch or the sink of a
\* page leaves every stored cursor as it was
C3_CheckpointOnlyAfterSink ==
    [][(ckpt' # ckpt \/ \E key \in Keys :
                          read_progress(progress', key) # read_progress(progress, key))
         => \/ pc \in Stopped /\ pc' = "start" /\ progress' = progress
            \/ /\ pc = "sink"
               /\ pc' \in {"loop", "DONE"}
               /\ AllSunk(data)
               /\ ckpt' = [key |-> CrawlWriteKey, cursor |-> GetEndCursor(data),
                            page |-> data]
               /\ \A key \in Keys :
                     read_progress(progress', key) # read_progress(progress, key)
                         => read_progress(progress', key) = GetEndCursor(data)
       ]_vars

\* page 1 was checkpointed, then the sink failed on page 2 after committing one
\* of its records: the stored cursor is still the end cursor of page 1
C3_Witness ==
    /\ pc = "ABORTED"
    /\ failure = "sink"
    /\ done_pages = 1
    /\ sunk = {1}
    /\ ckpt.page = B1
    /\ read_progress(progress, CrawlWriteKey) = "A"

\* C4: a first attempt answered 401 or 403 ends the call with a fatal error after
\* that one attempt, and the response does not come back as a success
C4_AuthFailsAtOnce ==
    (attempts >= 1 /\ first_status \in {401, 403}) =>
        /\ pc = "ABORTED"
        /\ failure = "fetch"
        /\ attempts = 1

\* C5: while attempts fail the client goes on to attempt 5 and no further; the
\* failure surfaces after exactly 5 attempts and ends the run, which then sinks,
\* checkpoints and fetches nothing more
C5_FiveAttemptsThenAbort ==
    /\ [](/\ attempts <= MAX_ATTEMPTS
          /\ pc = "fetch" => attempts < MAX_ATTEMPTS
          /\ failure = "fetch" => (pc = "ABORTED" /\ attempts = MAX_ATTEMPTS))
    /\ [][(pc = "ABORTED" /\ run' = run)
            => UNCHANGED <<pc, progress, repos, repo_stars, fetched, attempts,
                           done_pages, ckpt>>]_vars

\* every attempt of the fetch of page 2 was answered 5xx: the run is aborted after
\* the fifth
C5_Witness ==
    /\ pc = "ABORTED"
    /\ failure = "fetch"
    /\ all_5xx
    /\ attempts = 5
    /\ pages = 2
    /\ done_pages = 1

\* the body in data is a page with an empty node list
EmptyPage == Has(GetSearch(data), "edges") /\ GetEdges(data) = <<>>

\* C6: once an empty page has been fetched and looked at, the run is DONE whatever
\* hasNextPage says, with no further fetch, and for page 1 the page counter is 1
\* and the checkpoint is as it was read
C6_EmptyPageEndsRun ==
    (EmptyPage /\ pc \notin {"rate", "sink"}) =>
        /\ pc = "DONE"
        /\ fetched = 1 => (pages = 1 /\ Checkpointed = start_cursor)

\* the 200 bodies that lack the data object, the search object or the page info
Malformed == {BNoData, BNoSearch, BNoPageInfo}

\* C12: once a 200 body lacking data, search or page info has come back, no
\* record of it is sunk, no cursor is stored for it, and the run goes from
\* looking at it nowhere but to ABORTED with the error raised; it does not loop
\* or end DONE as after an empty last page
C12_MalformedAborts ==
    data \in Malformed =>
        /\ sunk = {}
        /\ ckpt.page # data
        /\ pc \in {"rate", "sink", "ABORTED"}
        /\ pc = "ABORTED" => failure # "none"

\* C14: a run is returned at most MaxPages bodies; when the page counter passes
\* the cap the run is DONE, not failed, with no attempt made for that count, and
\* the checkpoint of its key holds the end cursor of the last page it processed
C14_PageCap ==
    /\ fetched <= MaxPages
    /\ pages > MaxPages =>
          /\ pc = "DONE"
          /\ failure = "none"
          /\ attempts = 0
          /\ fetched = MaxPages
          /\ done_pages = MaxPages
          /\ Checkpointed = ckpt.cursor

\* C15: the first request of a run carries the cursor read from the checkpoint
\* of its key, every later request carries the end cursor of the body returned
\* last, and a step that stores a cursor stores the end cursor of the body that
\* answered the request carrying the cursor read at the start (first page of the
\* run) or the cursor stored before it (later pages)
C15_NoPageSkipped ==
    [][/\ (pc = "read" /\ pc' = "loop") =>
              /\ start_cursor' = read_progress(progress, run_key)
              /\ cursor' = start_cursor'
       /\ (pc = "fetch" /\ attempts' = attempts + 1) =>
              variables'.after = IF fetched = 0 THEN start_cursor
                                 ELSE GetEndCursor(data)
       /\ done_pages' = done_pages + 1 =>
              /\ variables.after = IF done_pages = 0 THEN start_cursor
                                   ELSE ckpt.cursor
              /\ ckpt'.cursor = GetEndCursor(data)
              /\ \A k \in Keys :
                    read_progress(progress', k) # read_progress(progress, k) =>
                        /\ read_progress(progress', k) = GetEndCursor(data)
                        /\ done_pages > 0 => read_progress(progress, k) = variables.after
      ]_vars

\* both pages of Listing were fetched in order from a null start cursor and the
\* end cursor of each was stored in turn
C15_Witness ==
    /\ pc = "DONE"
    /\ start_cursor = NULL
    /\ scenario = Listing
    /\ done_pages = 2
    /\ ckpt.cursor = "B"
    /\ read_progress(progress, ckpt.key) = "B"

\* C16: no step replaces a non-null cursor stored for a key by null, whatever
\* the page fetched, an empty page with a null end cursor included
C16_CursorNeverNulled ==
    [][\A k \in Keys :
           read_progress(progress, k) # NULL => read_progress(progress', k) # NULL
      ]_vars

\* C19: whatever the upstream answers, a run whose calls all return reaches DONE
\* or ABORTED, having been returned at most MaxPages bodies and having made at
\* most 5 attempts per request, and takes no step from there
C19_Terminates ==
    /\ <>(pc \in {"DONE", "ABORTED"})
    /\ [](/\ pages <= MaxPages + 1
          /\ fetched <= MaxPages
          /\ attempts <= MAX_ATTEMPTS)
    /\ [][(pc \in {"DONE", "ABORTED"}) => UNCHANGED vars]_vars

\* every page announced a next one: the run ended at the page cap
C19_Witness ==
    /\ pc = "DONE"
    /\ pages = MaxPages + 1
    /\ fetched = MaxPages
    /\ GetHasNext(data)

====
